---- MODULE Spec2Model ----
(***************************************************************************)
(* Attribute schema migration of paddle/fluid/framework/program_converter: *)
(* the two passes scalar::ConvertProgram (legacy per-type lists -> vector   *)
(* of Scalar) and no_scalar::ConvertProgram (vector of Scalar -> legacy     *)
(* per-type lists) over a program of blocks of operators.                   *)
(***************************************************************************)
EXTENDS Integers, Sequences, FiniteSets, TLC

VARIABLES program, before, orig, dir, i, j, status, err, hist

vars == <<program, before, orig, dir, i, j, status, err, hist>>

----------------------------------------------------------------------------
(* Bounds of the model.                                                    *)

MaxLen == 2

MaxBlocks == 2

MaxOps == 3

MaxPasses == 2

----------------------------------------------------------------------------
(* Scalar: a tagged value [dtype, val].  Numeric payloads are integers;    *)
(* the payload of a STRING scalar is an opaque code.                       *)

SupportedDTypes == {"BOOL", "FLOAT32", "INT32", "INT64", "FLOAT64", "FLOAT16"}

DTypes == SupportedDTypes \cup {"STRING"}

\* The data type a Scalar constructed from a C++ value of type ctype carries.
DTypeOfCpp(ctype) ==
    CASE ctype = "bool" -> "BOOL"
      [] ctype = "int" -> "INT32"
      [] ctype = "int64_t" -> "INT64"
      [] ctype = "float" -> "FLOAT32"
      [] ctype = "double" -> "FLOAT64"

\* paddle::experimental::Scalar(item) for an item of C++ type ctype.
Scalar(ctype, item) == [dtype |-> DTypeOfCpp(ctype), val |-> item]

\* Largest power of two p with p <= n (n >= 1).
RECURSIVE FloorPow2(_, _)
FloorPow2(n, p) == IF 2 * p > n THEN p ELSE FloorPow2(n, 2 * p)

\* Nearest 32-bit float (24-bit significand, ties to even) of an integer.
RoundToFloat(x) ==
    LET a == IF x < 0 THEN -x ELSE x
        r == IF a < 2^24 THEN a
             ELSE LET ulp == FloorPow2(a, 1) \div 2^23
                      lo == (a \div ulp) * ulp
                      rem == a - lo
                  IN  IF 2 * rem < ulp THEN lo
                      ELSE IF 2 * rem > ulp THEN lo + ulp
                      ELSE IF (lo \div ulp) % 2 = 0 THEN lo ELSE lo + ulp
    IN  IF x < 0 THEN -r ELSE r

\* Scalar::to<T>(): the payload converted to the C++ type ctype.  Payloads
\* range over integers of magnitude below 2^31, on which the conversions to
\* int, int64_t and double are exact; the conversion to float rounds.
ScalarTo(ctype, s) ==
    CASE ctype = "int" -> s.val
      [] ctype = "int64_t" -> s.val
      [] ctype = "float" -> RoundToFloat(s.val)
      [] ctype = "double" -> s.val

\* Scalar::ToRawString(): the rendering of the scalar, a non-empty string
\* (a sequence of tokens) from which the scalar is reconstructed exactly.
ToRawString(s) == <<s.dtype, s.val>>

\* paddle::experimental::Scalar(const std::string&): the scalar parsed back
\* from its rendering.
ScalarFromString(str) == [dtype |-> str[1], val |-> str[2]]

----------------------------------------------------------------------------
(* Typed attribute values and the attribute map of an OpDesc.              *)

Attr(type, v) == [type |-> type, v |-> v]

\* OpDesc::HasAttr
HasAttr(attrs, name) == name \in DOMAIN attrs

\* OpDesc::SetAttr: insert or overwrite.
SetAttr(attrs, name, a) ==
    [n \in (DOMAIN attrs) \cup {name} |-> IF n = name THEN a ELSE attrs[n]]

\* OpDesc::RemoveAttr: erase, no-op if absent.
RemoveAttr(attrs, name) == [n \in (DOMAIN attrs) \ {name} |-> attrs[n]]

\* PADDLE_GET_CONST(T, op->GetAttr(name, false)) succeeds: the attribute is
\* present and its stored type is T.
CanGet(attrs, name, type) == HasAttr(attrs, name) /\ attrs[name].type = type

\* The value PADDLE_GET_CONST(T, op->GetAttr(name, false)) yields.
GetAttr(attrs, name) == attrs[name].v

\* Result of running a converter on one operator: the attribute map it
\* leaves behind and the error it raised ("" when it returned normally).
Returned(attrs) == [attrs |-> attrs, err |-> ""]

Thrown(attrs, e) == [attrs |-> attrs, err |-> e]

----------------------------------------------------------------------------
(* ExtractPlainVector<T> and WrapAsScalars<T>.                             *)

ExtractPlainVector(ctype, values) ==
    [k \in 1..Len(values) |-> ScalarTo(ctype, values[k])]

WrapAsScalars(ctype, values) ==
    [k \in 1..Len(values) |-> Scalar(ctype, values[k])]

----------------------------------------------------------------------------
(* namespace no_scalar: vector of Scalar -> legacy per-type lists.          *)

\* The switch of no_scalar::ConvertSetValueOp: a is the attribute map after
\* the six empty lists were written.
no_scalar_SetValueSwitch(a, dtype, values) ==
    CASE dtype = "BOOL" ->
           Returned(SetAttr(a, "bool_values",
                            Attr("INTS", ExtractPlainVector("int", values))))
      [] dtype = "FLOAT32" ->
           Returned(SetAttr(a, "fp32_values",
                            Attr("FLOATS", ExtractPlainVector("float", values))))
      [] dtype = "INT32" ->
           Returned(SetAttr(a, "int32_values",
                            Attr("INTS", ExtractPlainVector("int", values))))
      [] dtype = "INT64" ->
           Returned(SetAttr(a, "int64_values",
                            Attr("LONGS", ExtractPlainVector("int64_t", values))))
      [] dtype = "FLOAT64" ->
           Returned(SetAttr(a, "fp64_values",
                            Attr("DOUBLES", ExtractPlainVector("double", values))))
      [] dtype = "FLOAT16" ->
           Returned(SetAttr(a, "fp16_values",
                            Attr("FLOATS", ExtractPlainVector("float", values))))
      [] OTHER -> Thrown(a, "InvalidDataType")

\* no_scalar::ConvertSetValueOp without the six SetAttr calls of lines 56-61.
no_scalar_ConvertSetValueOp_NoReset(attrs) ==
    IF ~CanGet(attrs, "values", "SCALARS") THEN Thrown(attrs, "GetAttr")
    ELSE
      LET values == GetAttr(attrs, "values")
          a1 == RemoveAttr(attrs, "values")
          dtype == IF Len(values) > 0 THEN values[1].dtype ELSE "FLOAT32"
      IN  no_scalar_SetValueSwitch(a1, dtype, values)

no_scalar_ConvertSetValueOp(attrs) ==
    IF ~CanGet(attrs, "values", "SCALARS") THEN Thrown(attrs, "GetAttr")
    ELSE
      LET values == GetAttr(attrs, "values")
          a1 == RemoveAttr(attrs, "values")
          a2 == SetAttr(a1, "bool_values", Attr("INTS", <<>>))
          a3 == SetAttr(a2, "fp32_values", Attr("FLOATS", <<>>))
          a4 == SetAttr(a3, "int32_values", Attr("INTS", <<>>))
          a5 == SetAttr(a4, "int64_values", Attr("LONGS", <<>>))
          a6 == SetAttr(a5, "fp64_values", Attr("DOUBLES", <<>>))
          a7 == SetAttr(a6, "fp16_values", Attr("FLOATS", <<>>))
          dtype == IF Len(values) > 0 THEN values[1].dtype ELSE "FLOAT32"
      IN  no_scalar_SetValueSwitch(a7, dtype, values)

\* The switch without the FLOAT64 case label and with FLOAT32 as default.
no_scalar_AssignValueSwitch_Default(a, dtype, values) ==
    CASE dtype = "BOOL" ->
           Returned(SetAttr(a, "bool_values",
                            Attr("INTS", ExtractPlainVector("int", values))))
      [] dtype = "FLOAT64" -> Thrown(a, "InvalidDataType")
      [] dtype = "INT32" ->
           Returned(SetAttr(a, "int32_values",
                            Attr("INTS", ExtractPlainVector("int", values))))
      [] dtype = "INT64" ->
           Returned(SetAttr(a, "int64_values",
                            Attr("LONGS", ExtractPlainVector("int64_t", values))))
      [] OTHER ->
           Returned(SetAttr(a, "fp32_values",
                            Attr("FLOATS", ExtractPlainVector("float", values))))

\* The switch of no_scalar::ConvertAssignValueOp.
no_scalar_AssignValueSwitch(a, dtype, values) ==
    CASE dtype = "BOOL" ->
           Returned(SetAttr(a, "bool_values",
                            Attr("INTS", ExtractPlainVector("int", values))))
      [] dtype \in {"FLOAT32", "FLOAT64"} ->
           Returned(SetAttr(a, "fp32_values",
                            Attr("FLOATS", ExtractPlainVector("float", values))))
      [] dtype = "INT32" ->
           Returned(SetAttr(a, "int32_values",
                            Attr("INTS", ExtractPlainVector("int", values))))
      [] dtype = "INT64" ->
           Returned(SetAttr(a, "int64_values",
                            Attr("LONGS", ExtractPlainVector("int64_t", values))))
      [] OTHER -> Thrown(a, "InvalidDataType")

\* no_scalar::ConvertAssignValueOp with RemoveAttr ahead of the typed read.
no_scalar_ConvertAssignValueOp_RemoveFirst(attrs) ==
    IF ~CanGet(attrs, "values", "SCALARS")
    THEN Thrown(RemoveAttr(attrs, "values"), "GetAttr")
    ELSE
      LET values == GetAttr(attrs, "values")
          a1 == RemoveAttr(attrs, "values")
          a2 == SetAttr(a1, "bool_values", Attr("INTS", <<>>))
          a3 == SetAttr(a2, "fp32_values", Attr("FLOATS", <<>>))
          a4 == SetAttr(a3, "int32_values", Attr("INTS", <<>>))
          a5 == SetAttr(a4, "int64_values", Attr("LONGS", <<>>))
          dtype == IF Len(values) > 0 THEN values[1].dtype ELSE "FLOAT32"
      IN  no_scalar_AssignValueSwitch(a5, dtype, values)

no_scalar_ConvertAssignValueOp(attrs) ==
    IF ~CanGet(attrs, "values", "SCALARS") THEN Thrown(attrs, "GetAttr")
    ELSE
      LET values == GetAttr(attrs, "values")
          a1 == RemoveAttr(attrs, "values")
          a2 == SetAttr(a1, "bool_values", Attr("INTS", <<>>))
          a3 == SetAttr(a2, "fp32_values", Attr("FLOATS", <<>>))
          a4 == SetAttr(a3, "int32_values", Attr("INTS", <<>>))
          a5 == SetAttr(a4, "int64_values", Attr("LONGS", <<>>))
          dtype == IF Len(values) > 0 THEN values[1].dtype ELSE "FLOAT32"
      IN  no_scalar_AssignValueSwitch(a5, dtype, values)

\* no_scalar::ConvertFillConstantOp without the FLOAT16 case label.
no_scalar_ConvertFillConstantOp_NoFloat16(attrs) ==
    IF ~CanGet(attrs, "value", "SCALAR") THEN Thrown(attrs, "GetAttr")
    ELSE
      LET value == GetAttr(attrs, "value")
          a1 == RemoveAttr(attrs, "value")
      IN  IF value.dtype \in {"BOOL", "INT32", "INT64", "FLOAT32", "FLOAT64"}
          THEN LET a2 == SetAttr(a1, "value",
                                 Attr("FLOAT", ScalarTo("float", value)))
               IN  Returned(SetAttr(a2, "str_value",
                                    Attr("STRING", ToRawString(value))))
          ELSE Thrown(a1, "InvalidDataType")

no_scalar_ConvertFillConstantOp(attrs) ==
    IF ~CanGet(attrs, "value", "SCALAR") THEN Thrown(attrs, "GetAttr")
    ELSE
      LET value == GetAttr(attrs, "value")
          a1 == RemoveAttr(attrs, "value")
      IN  IF value.dtype \in {"BOOL", "INT32", "INT64", "FLOAT32", "FLOAT64",
                              "FLOAT16"}
          THEN LET a2 == SetAttr(a1, "value",
                                 Attr("FLOAT", ScalarTo("float", value)))
               IN  Returned(SetAttr(a2, "str_value",
                                    Attr("STRING", ToRawString(value))))
          ELSE Thrown(a1, "InvalidDataType")

----------------------------------------------------------------------------
(* namespace scalar: legacy per-type lists -> vector of Scalar.             *)

\* The chain with the int32 branch tested before the fp32 branch.
scalar_SetValueChain_Int32First(bool_values, fp32_values, int32_values, int64_values, fp64_values, fp16_values) ==
    IF Len(bool_values) > 0 THEN WrapAsScalars("int", bool_values)
    ELSE IF Len(int32_values) > 0 THEN WrapAsScalars("int", int32_values)
    ELSE IF Len(fp32_values) > 0 THEN WrapAsScalars("float", fp32_values)
    ELSE IF Len(int64_values) > 0 THEN WrapAsScalars("int64_t", int64_values)
    ELSE IF Len(fp64_values) > 0 THEN WrapAsScalars("double", fp64_values)
    ELSE IF Len(fp16_values) > 0 THEN WrapAsScalars("float", fp16_values)
    ELSE <<>>

\* The if/else-if chain of scalar::ConvertSetValueOp over the lists read.
scalar_SetValueChain(bool_values, fp32_values, int32_values, int64_values, fp64_values, fp16_values) ==
    IF Len(bool_values) > 0 THEN WrapAsScalars("int", bool_values)
    ELSE IF Len(fp32_values) > 0 THEN WrapAsScalars("float", fp32_values)
    ELSE IF Len(int32_values) > 0 THEN WrapAsScalars("int", int32_values)
    ELSE IF Len(int64_values) > 0 THEN WrapAsScalars("int64_t", int64_values)
    ELSE IF Len(fp64_values) > 0 THEN WrapAsScalars("double", fp64_values)
    ELSE IF Len(fp16_values) > 0 THEN WrapAsScalars("float", fp16_values)
    ELSE <<>>

scalar_ConvertSetValueOp(attrs) ==
    IF ~(/\ CanGet(attrs, "bool_values", "INTS")
         /\ CanGet(attrs, "fp32_values", "FLOATS")
         /\ CanGet(attrs, "int32_values", "INTS")
         /\ CanGet(attrs, "int64_values", "LONGS")
         /\ CanGet(attrs, "fp64_values", "DOUBLES")
         /\ CanGet(attrs, "fp16_values", "FLOATS"))
    THEN Thrown(attrs, "GetAttr")
    ELSE
      LET values == scalar_SetValueChain(GetAttr(attrs, "bool_values"),
                                         GetAttr(attrs, "fp32_values"),
                                         GetAttr(attrs, "int32_values"),
                                         GetAttr(attrs, "int64_values"),
                                         GetAttr(attrs, "fp64_values"),
                                         GetAttr(attrs, "fp16_values"))
          a1 == RemoveAttr(attrs, "bool_values")
          a2 == RemoveAttr(a1, "fp32_values")
          a3 == RemoveAttr(a2, "int32_values")
          a4 == RemoveAttr(a3, "int64_values")
          a5 == RemoveAttr(a4, "fp64_values")
          a6 == RemoveAttr(a5, "fp16_values")
      IN  Returned(SetAttr(a6, "values", Attr("SCALARS", values)))

\* The if/else-if chain of scalar::ConvertAssignValueOp.
scalar_AssignValueChain(bool_values, fp32_values, int32_values, int64_values) ==
    IF Len(bool_values) > 0 THEN WrapAsScalars("int", bool_values)
    ELSE IF Len(fp32_values) > 0 THEN WrapAsScalars("float", fp32_values)
    ELSE IF Len(int32_values) > 0 THEN WrapAsScalars("int", int32_values)
    ELSE IF Len(int64_values) > 0 THEN WrapAsScalars("int64_t", int64_values)
    ELSE <<>>

scalar_ConvertAssignValueOp(attrs) ==
    IF ~(/\ CanGet(attrs, "bool_values", "INTS")
         /\ CanGet(attrs, "fp32_values", "FLOATS")
         /\ CanGet(attrs, "int32_values", "INTS")
         /\ CanGet(attrs, "int64_values", "LONGS"))
    THEN Thrown(attrs, "GetAttr")
    ELSE
      LET values == scalar_AssignValueChain(GetAttr(attrs, "bool_values"),
                                            GetAttr(attrs, "fp32_values"),
                                            GetAttr(attrs, "int32_values"),
                                            GetAttr(attrs, "int64_values"))
          a1 == RemoveAttr(attrs, "bool_values")
          a2 == RemoveAttr(a1, "fp32_values")
          a3 == RemoveAttr(a2, "int32_values")
          a4 == RemoveAttr(a3, "int64_values")
      IN  Returned(SetAttr(a4, "values", Attr("SCALARS", values)))

\* scalar::ConvertFillConstantOp with the test of str_value.empty() inverted:
\* the float is taken when the string is non-empty.
scalar_ConvertFillConstantOp_Inverted(attrs) ==
    IF ~(/\ CanGet(attrs, "value", "FLOAT")
         /\ CanGet(attrs, "str_value", "STRING"))
    THEN Thrown(attrs, "GetAttr")
    ELSE
      LET value == GetAttr(attrs, "value")
          str_value == GetAttr(attrs, "str_value")
          scalar_value == IF Len(str_value) = 0
                          THEN [dtype |-> "FLOAT64", val |-> 0]
                          ELSE Scalar("float", value)
          a1 == RemoveAttr(attrs, "value")
          a2 == RemoveAttr(a1, "str_value")
      IN  Returned(SetAttr(a2, "value", Attr("SCALAR", scalar_value)))

\* scalar::ConvertFillConstantOp without the str_value branch.
scalar_ConvertFillConstantOp_FloatOnly(attrs) ==
    IF ~(/\ CanGet(attrs, "value", "FLOAT")
         /\ CanGet(attrs, "str_value", "STRING"))
    THEN Thrown(attrs, "GetAttr")
    ELSE
      LET value == GetAttr(attrs, "value")
          a1 == RemoveAttr(attrs, "value")
          a2 == RemoveAttr(a1, "str_value")
      IN  Returned(SetAttr(a2, "value",
                           Attr("SCALAR", Scalar("float", value))))

scalar_ConvertFillConstantOp(attrs) ==
    IF ~(/\ CanGet(attrs, "value", "FLOAT")
         /\ CanGet(attrs, "str_value", "STRING"))
    THEN Thrown(attrs, "GetAttr")
    ELSE
      LET value == GetAttr(attrs, "value")
          str_value == GetAttr(attrs, "str_value")
          scalar_value == IF Len(str_value) # 0
                          THEN ScalarFromString(str_value)
                          ELSE Scalar("float", value)
          a1 == RemoveAttr(attrs, "value")
          a2 == RemoveAttr(a1, "str_value")
      IN  Returned(SetAttr(a2, "value", Attr("SCALAR", scalar_value)))

----------------------------------------------------------------------------
(* The body of the inner loop of ConvertProgram: dispatch on the type name. *)

\* The dispatch with set_value matched as a prefix of the type name.
no_scalar_Dispatch_Prefix(op) ==
    IF op.type \in {"set_value", "set_value_grad"}
    THEN no_scalar_ConvertSetValueOp(op.attrs)
    ELSE IF op.type = "fill_constant"
         THEN no_scalar_ConvertFillConstantOp(op.attrs)
    ELSE IF op.type = "assign_value"
         THEN no_scalar_ConvertAssignValueOp(op.attrs)
    ELSE Returned(op.attrs)

no_scalar_Dispatch(op) ==
    IF op.type = "set_value" THEN no_scalar_ConvertSetValueOp(op.attrs)
    ELSE IF op.type = "fill_constant"
         THEN no_scalar_ConvertFillConstantOp(op.attrs)
    ELSE IF op.type = "assign_value"
         THEN no_scalar_ConvertAssignValueOp(op.attrs)
    ELSE Returned(op.attrs)

scalar_Dispatch(op) ==
    IF op.type = "set_value" THEN scalar_ConvertSetValueOp(op.attrs)
    ELSE IF op.type = "fill_constant"
         THEN scalar_ConvertFillConstantOp(op.attrs)
    ELSE IF op.type = "assign_value"
         THEN scalar_ConvertAssignValueOp(op.attrs)
    ELSE Returned(op.attrs)

----------------------------------------------------------------------------
(* Operators and programs the passes are run on.                           *)

OpDesc(type, attrs) == [type |-> type, attrs |-> attrs]

SeqsUpTo(S, n) == UNION {[1..k -> S] : k \in 0..n}

\* Payloads a scalar of each data type takes in the model.
ValuesOf(dtype) ==
    CASE dtype = "BOOL" -> {0, 1}
      [] dtype = "FLOAT32" -> {2, 16777216}
      [] dtype = "INT32" -> {3, 16777217}
      [] dtype = "INT64" -> {7, 16777219}
      [] dtype = "FLOAT64" -> {9, 16777217}
      [] dtype = "FLOAT16" -> {4, 6}
      [] dtype = "STRING" -> {0}

ScalarsOf(dtype) == {[dtype |-> dtype, val |-> v] : v \in ValuesOf(dtype)}

\* The legacy list attributes of set_value in the order scalar:: reads them.
SetValueLists ==
    {"bool_values", "fp32_values", "int32_values", "int64_values",
     "fp64_values", "fp16_values"}

AssignValueLists ==
    {"bool_values", "fp32_values", "int32_values", "int64_values"}

LegacyLists(type) ==
    IF type = "assign_value" THEN AssignValueLists ELSE SetValueLists

\* The data type a legacy list attribute stands for.
ListDType(name) ==
    CASE name = "bool_values" -> "BOOL"
      [] name = "fp32_values" -> "FLOAT32"
      [] name = "int32_values" -> "INT32"
      [] name = "int64_values" -> "INT64"
      [] name = "fp64_values" -> "FLOAT64"
      [] name = "fp16_values" -> "FLOAT16"

\* The stored C++ vector type of a legacy list attribute.
ListType(name) ==
    CASE name \in {"bool_values", "int32_values"} -> "INTS"
      [] name \in {"fp32_values", "fp16_values"} -> "FLOATS"
      [] name = "int64_values" -> "LONGS"
      [] name = "fp64_values" -> "DOUBLES"

\* An attribute no converter names, carried by every operator.
OtherAttrs == [shape |-> Attr("LONGS", <<1>>)]

\* The legacy encoding of the sequence V in the list name: V in that list,
\* every other list of the operator present and empty.
LegacyEncode(type, name, V) ==
    [n \in LegacyLists(type) |->
        Attr(ListType(n), IF n = name THEN V ELSE <<>>)] @@ OtherAttrs

Restrict(f, S) == [n \in S |-> f[n]]

Repeat(v, len) == [k \in 1..len |-> v]

Lowest(S) == CHOOSE v \in S : \A w \in S : v <= w

ListOpTypes == {"set_value", "assign_value"}

\* Well-formed legacy operators: one list holds V.
LegacyOps ==
    {OpDesc(t, LegacyEncode(t, n, V)) :
        <<t, n, V>> \in UNION {UNION {{<<t, n, V>> :
            V \in SeqsUpTo(ValuesOf(ListDType(n)), MaxLen)} :
            n \in LegacyLists(t)} : t \in ListOpTypes}}

\* Legacy operators with two non-empty lists.
TwoListOps ==
    UNION {UNION {
        {OpDesc(t, SetAttr(
              LegacyEncode(t, n1,
                           Repeat(Lowest(ValuesOf(ListDType(n1))), l1)),
              n2, Attr(ListType(n2),
                       Repeat(Lowest(ValuesOf(ListDType(n2))), l2)))) :
            <<n1, n2>> \in {q \in LegacyLists(t) \X LegacyLists(t) :
                               q[1] # q[2]}} :
        <<l1, l2>> \in (1..MaxLen) \X {1}} : t \in ListOpTypes}

\* Legacy operators on which one list, or every list, is absent.
AbsentListOps ==
    UNION {UNION {
        {OpDesc(t, Restrict(LegacyEncode(t, n, V),
                            (DOMAIN LegacyEncode(t, n, V)) \ A)) :
            A \in {{m} : m \in LegacyLists(t)} \cup {LegacyLists(t)}} :
        <<n, V>> \in UNION {{<<n, V>> :
            V \in SeqsUpTo({Lowest(ValuesOf(ListDType(n)))}, 1)} :
            n \in LegacyLists(t)}} : t \in ListOpTypes}

\* Sequences of scalars of one data type.
HomogeneousValues ==
    UNION {SeqsUpTo(ScalarsOf(d), MaxLen) : d \in DTypes}

\* Two-element sequences of scalars of two data types; a STRING scalar is
\* only ever followed, never converted.
MixedValues ==
    {<<[dtype |-> d1, val |-> Lowest(ValuesOf(d1))],
       [dtype |-> d2, val |-> Lowest(ValuesOf(d2))]>> :
        <<d1, d2>> \in {q \in DTypes \X SupportedDTypes : q[1] # q[2]}}

UnifiedOps ==
    {OpDesc(t, [values |-> Attr("SCALARS", V)] @@ OtherAttrs) :
        <<t, V>> \in ListOpTypes \X (HomogeneousValues \cup MixedValues)}

\* Unified operators that still carry non-empty legacy lists.
StaleListOps ==
    {OpDesc(t, [values |-> Attr("SCALARS", <<s>>),
                bool_values |-> Attr("INTS", <<1>>),
                int64_values |-> Attr("LONGS", <<7>>)] @@ OtherAttrs) :
        <<t, s>> \in ListOpTypes \X
                     {[dtype |-> d, val |-> Lowest(ValuesOf(d))] :
                         d \in SupportedDTypes}}

FillConstantUnifiedOps ==
    {OpDesc("fill_constant", [value |-> Attr("SCALAR", s)] @@ OtherAttrs) :
        s \in UNION {ScalarsOf(d) : d \in DTypes}}

FillConstantLegacyOps ==
    {OpDesc("fill_constant",
            [value |-> Attr("FLOAT", v), str_value |-> Attr("STRING", str)]
              @@ OtherAttrs) :
        <<v, str>> \in ValuesOf("FLOAT32") \X
            ({<<>>} \cup {ToRawString(s) :
                             s \in UNION {ScalarsOf(d) : d \in SupportedDTypes}})}
    \cup
    {OpDesc("fill_constant", [value |-> Attr("FLOAT", 2)] @@ OtherAttrs)}

\* Attributes stored with a type the converters do not expect.
WrongTypeOps ==
    {OpDesc(t, [values |-> Attr("INTS", <<3>>)] @@ OtherAttrs) :
        t \in ListOpTypes}
    \cup
    {OpDesc("fill_constant", OtherAttrs)}

\* Operators of other types carrying the attributes of the migratable ones.
OtherOps ==
    {OpDesc(t, a) :
        <<t, a>> \in {"set_value_grad", "fill_constant_p"} \X
            {LegacyEncode("set_value", "int32_values", <<3>>),
             [values |-> Attr("SCALARS", <<[dtype |-> "INT32", val |-> 3]>>)]
                @@ OtherAttrs,
             [value |-> Attr("SCALAR", [dtype |-> "INT64", val |-> 7])]
                @@ OtherAttrs,
             [value |-> Attr("FLOAT", 2), str_value |-> Attr("STRING", <<>>)]
                @@ OtherAttrs}}

AllOps ==
    LegacyOps \cup TwoListOps \cup AbsentListOps \cup UnifiedOps
      \cup StaleListOps \cup FillConstantUnifiedOps
      \cup FillConstantLegacyOps \cup WrongTypeOps \cup OtherOps

\* Operators the programs of several operators are built from.
FewOps ==
    {OpDesc("set_value",
            [values |-> Attr("SCALARS", <<[dtype |-> "INT32", val |-> 3]>>)]
              @@ OtherAttrs),
     OpDesc("set_value",
            [values |-> Attr("SCALARS", <<[dtype |-> "STRING", val |-> 0]>>)]
              @@ OtherAttrs),
     OpDesc("fill_constant",
            [value |-> Attr("SCALAR", [dtype |-> "INT64", val |-> 7])]
              @@ OtherAttrs),
     OpDesc("assign_value", LegacyEncode("assign_value", "int32_values", <<3>>)),
     OpDesc("set_value_grad",
            [values |-> Attr("SCALARS", <<[dtype |-> "INT32", val |-> 3]>>)]
              @@ OtherAttrs)}

\* Programs of at most b blocks holding at most n operators of FewOps in all.
RECURSIVE ProgramsWithin(_, _)
ProgramsWithin(b, n) ==
    IF b = 0 THEN {<<>>}
    ELSE {<<>>} \cup
         UNION {{<<block>> \o rest : rest \in ProgramsWithin(b - 1, n - Len(block))} :
                   block \in SeqsUpTo(FewOps, n)}

Programs ==
    {<<<<op>>>> : op \in AllOps} \cup ProgramsWithin(MaxBlocks, MaxOps)

----------------------------------------------------------------------------
(* The passes.                                                             *)

Directions == {"scalar", "no_scalar"}

\* The converted operator appended to the block as a new operator.
MutateOp_Append(prog, bi, oj, attrs) ==
    [prog EXCEPT ![bi + 1] =
        Append(@, [type |-> prog[bi + 1][oj + 1].type, attrs |-> attrs])]

\* block->Op(j) converted in place: only the attribute map of operator j of
\* block i changes.
MutateOp(prog, bi, oj, attrs) == [prog EXCEPT ![bi + 1][oj + 1].attrs = attrs]

\* The converter ConvertProgram of the direction d runs on an operator.
Dispatch(d, op) ==
    IF d = "scalar" THEN scalar_Dispatch(op) ELSE no_scalar_Dispatch(op)

Init ==
    /\ program \in Programs
    /\ before = program
    /\ orig = program
    /\ dir = "none"
    /\ i = 0
    /\ j = 0
    /\ status = "idle"
    /\ err = ""
    /\ hist = <<>>

\* A caller invokes scalar::ConvertProgram or no_scalar::ConvertProgram.
ConvertProgram(d) ==
    /\ status \in {"idle", "done"}
    /\ Len(hist) < MaxPasses
    /\ dir' = d
    /\ before' = program
    /\ i' = 0
    /\ j' = 0
    /\ status' = "running"
    /\ UNCHANGED <<program, orig, err, hist>>

\* The iteration with the exception caught and the loop carried on.
ConvertOp_CatchAndContinue ==
    /\ status = "running"
    /\ i < Len(program)
    /\ j < Len(program[i + 1])
    /\ LET r == Dispatch(dir, program[i + 1][j + 1])
       IN  /\ program' = MutateOp(program, i, j, r.attrs)
           /\ err' = IF r.err = "" THEN err ELSE r.err
           /\ j' = j + 1
    /\ UNCHANGED <<before, orig, dir, i, status, hist>>

\* One iteration of the inner loop: the operator j of block i is converted;
\* an exception leaves the pass.
ConvertOp ==
    /\ status = "running"
    /\ i < Len(program)
    /\ j < Len(program[i + 1])
    /\ LET r == Dispatch(dir, program[i + 1][j + 1])
       IN  /\ program' = MutateOp(program, i, j, r.attrs)
           /\ IF r.err = ""
              THEN /\ j' = j + 1
                   /\ UNCHANGED <<status, err>>
              ELSE /\ status' = "error"
                   /\ err' = r.err
                   /\ UNCHANGED j
    /\ UNCHANGED <<before, orig, dir, i, hist>>

\* The inner loop ends: the outer loop moves to the next block.
NextBlock ==
    /\ status = "running"
    /\ i < Len(program)
    /\ j = Len(program[i + 1])
    /\ i' = i + 1
    /\ j' = 0
    /\ UNCHANGED <<program, before, orig, dir, status, err, hist>>

\* The outer loop ends: ConvertProgram returns.
Return ==
    /\ status = "running"
    /\ i = Len(program)
    /\ status' = "done"
    /\ hist' = Append(hist, dir)
    /\ UNCHANGED <<program, before, orig, dir, i, j, err>>

Next ==
    \/ \E d \in Directions : ConvertProgram(d)
    \/ ConvertOp
    \/ NextBlock
    \/ Return

Spec == Init /\ [][Next]_vars

----------------------------------------------------------------------------
(* Vocabulary of the properties.                                           *)

Migratable == {"set_value", "assign_value", "fill_constant"}

\* Positions <<b, k>> of the operators of a program, in document order.
Positions(prog) ==
    UNION {{<<b, k>> : k \in 1..Len(prog[b])} : b \in 1..Len(prog)}

\* The operator at <<b, k>> did not change type or attributes in this pass.
Untouched(q) ==
    /\ q \in Positions(program)
    /\ program[q[1]][q[2]] = before[q[1]][q[2]]

\* The loops of the running pass are past position q.
Passed(q) ==
    /\ dir \in Directions
    /\ status # "idle"
    /\ \/ q[1] - 1 < i
       \/ q[1] - 1 = i /\ q[2] - 1 < j

\* The loops of the running pass have not reached position q.
Ahead(q) ==
    \/ q[1] - 1 > i
    \/ q[1] - 1 = i /\ q[2] - 1 > j

\* The converter raised at position q.
RaisedAt(q) == status = "error" /\ q = <<i + 1, j + 1>>

\* Rank of the legacy lists in the order bool, fp32, int32, int64, fp64, fp16.
Rank(name) ==
    CASE name = "bool_values" -> 1
      [] name = "fp32_values" -> 2
      [] name = "int32_values" -> 3
      [] name = "int64_values" -> 4
      [] name = "fp64_values" -> 5
      [] name = "fp16_values" -> 6

\* The legacy lists of the operator that are present with the stored type
\* of the list and hold at least one element.
NonEmptyLists(op) ==
    {n \in LegacyLists(op.type) :
        CanGet(op.attrs, n, ListType(n)) /\ Len(op.attrs[n].v) > 0}

\* Every legacy list of the operator is present with its stored type.
AllListsPresent(op) ==
    \A n \in LegacyLists(op.type) : CanGet(op.attrs, n, ListType(n))

\* Every legacy list of the operator is absent, or present and empty.
AllListsEmptyOrAbsent(op) ==
    \A n \in LegacyLists(op.type) :
        \/ ~HasAttr(op.attrs, n)
        \/ op.attrs[n] = Attr(ListType(n), <<>>)

FirstList(op) ==
    CHOOSE n \in NonEmptyLists(op) :
        \A m \in NonEmptyLists(op) : Rank(n) <= Rank(m)

\* The operator carries a unified `values` sequence.
HasValues(op) == CanGet(op.attrs, "values", "SCALARS")

\* The discriminant Legacyize goes by: that of the first element, FLOAT32
\* for the empty sequence.
Discriminant(values) ==
    IF Len(values) > 0 THEN values[1].dtype ELSE "FLOAT32"

\* The discriminants the legacy form of the operator type has a slot for.
SupportedBy(type) ==
    IF type = "assign_value"
    THEN {"BOOL", "FLOAT32", "FLOAT64", "INT32", "INT64"}
    ELSE SupportedDTypes

\* The legacy list a discriminant selects.
Destination(type, dtype) ==
    CASE dtype = "BOOL" -> "bool_values"
      [] dtype = "FLOAT32" -> "fp32_values"
      [] dtype = "INT32" -> "int32_values"
      [] dtype = "INT64" -> "int64_values"
      [] dtype = "FLOAT64" ->
           IF type = "assign_value" THEN "fp32_values" ELSE "fp64_values"
      [] dtype = "FLOAT16" -> "fp16_values"

\* The payload of a scalar as an element of the legacy list name.
Coerced(name, s) ==
    IF ListType(name) = "FLOATS" THEN RoundToFloat(s.val) ELSE s.val

\* The form a successful converter of direction d leaves an operator in.
ConvertedForm(d, op) ==
    IF op.type \in ListOpTypes
    THEN IF d = "scalar"
         THEN /\ HasValues(op)
              /\ \A n \in LegacyLists(op.type) : ~HasAttr(op.attrs, n)
         ELSE /\ ~HasAttr(op.attrs, "values")
              /\ AllListsPresent(op)
    ELSE IF d = "scalar"
         THEN /\ CanGet(op.attrs, "value", "SCALAR")
              /\ ~HasAttr(op.attrs, "str_value")
         ELSE /\ CanGet(op.attrs, "value", "FLOAT")
              /\ CanGet(op.attrs, "str_value", "STRING")

----------------------------------------------------------------------------
(* Properties.                                                             *)

\* C1: a set_value operator that legacy-encodes a sequence V of a
\* discriminant among Bool, Float32, Int32, Int64, Float64, Float16 (V in the
\* list of that discriminant, every other list empty), and an assign_value
\* operator doing so for Bool, Int32, Int64, Float32, has exactly the same
\* attributes after scalar::ConvertProgram followed by
\* no_scalar::ConvertProgram.
C1_ListRoundTrip ==
    (status = "done" /\ hist = <<"scalar", "no_scalar">>) =>
        \A q \in Positions(orig) :
            orig[q[1]][q[2]] \in LegacyOps =>
                program[q[1]][q[2]].attrs = orig[q[1]][q[2]].attrs

\* C2: when no_scalar::ConvertSetValueOp or no_scalar::ConvertAssignValueOp
\* runs on an operator whose `values` starts with a STRING scalar, it raises
\* the invalid-data-type error and the attribute map of the operator is the
\* one it had before the call.
C2_FailureWithoutMutation ==
    \A q \in Positions(before) :
        LET op == before[q[1]][q[2]]
        IN  (/\ dir = "no_scalar"
             /\ op.type \in ListOpTypes
             /\ HasValues(op)
             /\ Discriminant(op.attrs["values"].v) = "STRING"
             /\ (RaisedAt(q) \/ Passed(q)))
            => /\ RaisedAt(q)
               /\ err = "InvalidDataType"
               /\ program[q[1]][q[2]].attrs = op.attrs

\* C3: in both directions, in every state of a pass, an operator whose type
\* is none of set_value, assign_value, fill_constant has the type and the
\* attribute map it had before the pass.
C3_NonTargetPassthrough ==
    \A q \in Positions(before) :
        before[q[1]][q[2]].type \notin Migratable => Untouched(q)

C3_Witness ==
    /\ status = "done"
    /\ Len(hist) = 2
    /\ hist[1] # hist[2]
    /\ program # before
    /\ \E q \in Positions(before) :
          /\ before[q[1]][q[2]].type \notin Migratable
          /\ HasValues(before[q[1]][q[2]])

\* C4: scalar::ConvertSetValueOp / ConvertAssignValueOp on an operator with
\* two or more non-empty legacy lists builds `values` from the non-empty
\* list that is first in the order bool, fp32, int32, int64, fp64, fp16:
\* same length, same payloads, and no payload of a later list.
C4_PriorityTieBreak ==
    \A q \in Positions(before) :
        LET op == before[q[1]][q[2]]
        IN  (/\ dir = "scalar"
             /\ Passed(q)
             /\ op.type \in ListOpTypes
             /\ AllListsPresent(op)
             /\ Cardinality(NonEmptyLists(op)) >= 2)
            => LET src == op.attrs[FirstList(op)].v
                   now == program[q[1]][q[2]]
               IN  /\ HasValues(now)
                   /\ Len(now.attrs["values"].v) = Len(src)
                   /\ \A x \in 1..Len(src) :
                         now.attrs["values"].v[x].val = src[x]
                   /\ \A m \in NonEmptyLists(op) \ {FirstList(op)} :
                         \A x \in 1..Len(src), y \in 1..Len(op.attrs[m].v) :
                            now.attrs["values"].v[x].val # op.attrs[m].v[y]

C4_Witness ==
    /\ dir = "scalar"
    /\ status = "done"
    /\ \E q \in Positions(before) :
          /\ before[q[1]][q[2]].type = "set_value"
          /\ AllListsPresent(before[q[1]][q[2]])
          /\ NonEmptyLists(before[q[1]][q[2]]) =
                {"int32_values", "fp32_values"}
          /\ HasValues(program[q[1]][q[2]])
          /\ Len(program[q[1]][q[2]].attrs["values"].v) = 2

\* C5: scalar::ConvertSetValueOp / ConvertAssignValueOp on an operator on
\* which every legacy list is empty or absent raises nothing and writes
\* `values` as the empty sequence.
C5_EmptyOrAbsent ==
    \A q \in Positions(before) :
        LET op == before[q[1]][q[2]]
        IN  (/\ dir = "scalar"
             /\ op.type \in ListOpTypes
             /\ AllListsEmptyOrAbsent(op)
             /\ (RaisedAt(q) \/ Passed(q)))
            => /\ ~RaisedAt(q)
               /\ HasValues(program[q[1]][q[2]])
               /\ program[q[1]][q[2]].attrs["values"].v = <<>>

\* C6: after a successful scalar::ConvertProgram every set_value and
\* assign_value operator has `values`, each element tagged with the data
\* type of the legacy list it came from, and none of the legacy lists;
\* after a successful no_scalar::ConvertProgram every such operator has no
\* `values` and all of its legacy lists.
C6_EncodingReplaced ==
    (status = "done") =>
        \A q \in Positions(before) :
            LET op == before[q[1]][q[2]]
                now == program[q[1]][q[2]]
            IN  op.type \in ListOpTypes =>
                  IF dir = "scalar"
                  THEN /\ HasValues(now)
                       /\ \A n \in SetValueLists : ~HasAttr(now.attrs, n)
                       /\ NonEmptyLists(op) # {} =>
                            \A x \in 1..Len(now.attrs["values"].v) :
                               now.attrs["values"].v[x].dtype =
                                  ListDType(FirstList(op))
                  ELSE /\ ~HasAttr(now.attrs, "values")
                       /\ AllListsPresent(now)

C8_TopologyInvariant ==
    /\ Len(program) = Len(before)
    /\ \A b \in 1..Len(before) :
          /\ Len(program[b]) = Len(before[b])
          /\ \A k \in 1..Len(before[b]) :
                /\ program[b][k].type = before[b][k].type
                /\ program[b][k].attrs # before[b][k].attrs =>
                      before[b][k].type \in Migratable

C8_Witness ==
    /\ status = "error"
    /\ Len(program) = 2
    /\ i = 1
    /\ program[1] # before[1]
    /\ program[2] # before[2]

\* C9: no_scalar::ConvertSetValueOp / ConvertAssignValueOp on `values` of a
\* supported discriminant writes all elements, in order and coerced, into
\* the one legacy list the discriminant of the first element selects
\* (FLOAT32 for the empty sequence) and leaves every other legacy list of
\* the operator present and empty.
C9_LegacyizeDestination ==
    \A q \in Positions(before) :
        LET op == before[q[1]][q[2]]
        IN  (/\ dir = "no_scalar"
             /\ Passed(q)
             /\ op.type \in ListOpTypes
             /\ HasValues(op)
             /\ Discriminant(op.attrs["values"].v) \in SupportedBy(op.type))
            => LET values == op.attrs["values"].v
                   dest == Destination(op.type, Discriminant(values))
                   now == program[q[1]][q[2]]
               IN  /\ CanGet(now.attrs, dest, ListType(dest))
                   /\ Len(now.attrs[dest].v) = Len(values)
                   /\ \A x \in 1..Len(values) :
                         now.attrs[dest].v[x] = Coerced(dest, values[x])
                   /\ \A n \in LegacyLists(op.type) \ {dest} :
                         /\ HasAttr(now.attrs, n)
                         /\ now.attrs[n] = Attr(ListType(n), <<>>)
                   /\ Cardinality(NonEmptyLists(now)) <= 1

C9_Witness ==
    /\ dir = "no_scalar"
    /\ status = "done"
    /\ \E q \in Positions(before) :
          /\ before[q[1]][q[2]].type = "set_value"
          /\ HasAttr(before[q[1]][q[2]].attrs, "bool_values")
          /\ HasValues(before[q[1]][q[2]])
          /\ Discriminant(before[q[1]][q[2]].attrs["values"].v) = "FLOAT64"
          /\ NonEmptyLists(program[q[1]][q[2]]) = {"fp64_values"}

\* What C10 says of a state in which a converter has raised.
C10_StoppedAt ==
    err # "" =>
        \A q \in Positions(before) :
            /\ (Passed(q) /\ before[q[1]][q[2]].type \in Migratable)
                  => ConvertedForm(dir, program[q[1]][q[2]])
            /\ Ahead(q) => Untouched(q)

\* C10: when a converter raises at an operator, every migratable operator
\* before it is in its converted form, every operator after it has the
\* attribute map it had before the pass, and the program is never changed
\* again.
C10_ErrorPropagation ==
    [](C10_StoppedAt) /\ [][err # "" => program' = program]_vars

C10_Witness ==
    /\ status = "error"
    /\ i = 1
    /\ j = 0
    /\ Len(program) = 2
    /\ Len(program[2]) = 2
    /\ \E k \in 1..Len(before[1]) :
          /\ before[1][k].type \in Migratable
          /\ program[1][k] # before[1][k]
    /\ program[2][2].type \in Migratable

\* C11: no_scalar::ConvertFillConstantOp on a `value` scalar of data type
\* Bool, Int32, Int64, Float32, Float64 or Float16 leaves `value` holding the
\* scalar converted to a 32-bit float and `str_value` holding the rendering
\* of the scalar; on any other data type it raises the unsupported-type
\* error and writes neither a float `value` nor a `str_value`.
C11_FillConstantToLegacy ==
    \A q \in Positions(before) :
        LET op == before[q[1]][q[2]]
            now == program[q[1]][q[2]]
        IN  (/\ dir = "no_scalar"
             /\ op.type = "fill_constant"
             /\ CanGet(op.attrs, "value", "SCALAR")
             /\ (RaisedAt(q) \/ Passed(q)))
            => IF op.attrs["value"].v.dtype \in
                    {"BOOL", "INT32", "INT64", "FLOAT32", "FLOAT64", "FLOAT16"}
               THEN /\ Passed(q)
                    /\ now.attrs["value"] =
                          Attr("FLOAT", RoundToFloat(op.attrs["value"].v.val))
                    /\ HasAttr(now.attrs, "str_value")
                    /\ now.attrs["str_value"] =
                          Attr("STRING", <<op.attrs["value"].v.dtype,
                                           op.attrs["value"].v.val>>)
               ELSE /\ RaisedAt(q)
                    /\ err = "InvalidDataType"
                    /\ ~CanGet(now.attrs, "value", "FLOAT")
                    /\ ~HasAttr(now.attrs, "str_value")

C11_Witness ==
    /\ dir = "no_scalar"
    /\ status = "done"
    /\ \E q \in Positions(before) :
          /\ before[q[1]][q[2]].type = "fill_constant"
          /\ CanGet(before[q[1]][q[2]].attrs, "value", "SCALAR")
          /\ before[q[1]][q[2]].attrs["value"].v.dtype = "FLOAT16"
          /\ CanGet(program[q[1]][q[2]].attrs, "value", "FLOAT")
          /\ CanGet(program[q[1]][q[2]].attrs, "str_value", "STRING")

\* C12: scalar::ConvertFillConstantOp, given a float `value` and a string
\* `str_value`, builds the scalar from `str_value` whenever it is non-empty,
\* whatever the float is, and the FLOAT32 scalar of `value` otherwise;
\* afterwards the operator has no `str_value` and `value` is the scalar.
C12_FillConstantToUnified ==
    \A q \in Positions(before) :
        LET op == before[q[1]][q[2]]
            now == program[q[1]][q[2]]
        IN  (/\ dir = "scalar"
             /\ op.type = "fill_constant"
             /\ CanGet(op.attrs, "value", "FLOAT")
             /\ CanGet(op.attrs, "str_value", "STRING")
             /\ (RaisedAt(q) \/ Passed(q)))
            => /\ Passed(q)
               /\ ~HasAttr(now.attrs, "str_value")
               /\ CanGet(now.attrs, "value", "SCALAR")
               /\ IF op.attrs["str_value"].v # <<>>
                  THEN <<now.attrs["value"].v.dtype, now.attrs["value"].v.val>>
                          = op.attrs["str_value"].v
                  ELSE now.attrs["value"].v =
                          [dtype |-> "FLOAT32", val |-> op.attrs["value"].v]

C12_Witness ==
    /\ dir = "scalar"
    /\ status = "done"
    /\ \E q \in Positions(before) :
          /\ before[q[1]][q[2]].type = "fill_constant"
          /\ CanGet(before[q[1]][q[2]].attrs, "value", "FLOAT")
          /\ CanGet(before[q[1]][q[2]].attrs, "str_value", "STRING")
          /\ before[q[1]][q[2]].attrs["str_value"].v = <<"INT64", 7>>
          /\ before[q[1]][q[2]].attrs["value"].v = 2
          /\ CanGet(program[q[1]][q[2]].attrs, "value", "SCALAR")
          /\ program[q[1]][q[2]].attrs["value"].v.val = 7

\* C13: no_scalar::ConvertAssignValueOp on `values` whose first element is
\* FLOAT64 writes all elements, converted to 32-bit float, into fp32_values,
\* leaves bool_values, int32_values and int64_values present and empty and
\* creates no fp64_values or fp16_values; a first element of a data type
\* other than Bool, Float32, Float64, Int32, Int64 raises the
\* unsupported-type error.
C13_AssignValueNarrowing ==
    \A q \in Positions(before) :
        LET op == before[q[1]][q[2]]
            now == program[q[1]][q[2]]
        IN  (/\ dir = "no_scalar"
             /\ op.type = "assign_value"
             /\ HasValues(op)
             /\ Len(op.attrs["values"].v) > 0
             /\ (RaisedAt(q) \/ Passed(q)))
            => LET values == op.attrs["values"].v
               IN  /\ values[1].dtype = "FLOAT64" =>
                         /\ Passed(q)
                         /\ now.attrs["fp32_values"] =
                               Attr("FLOATS",
                                    [x \in 1..Len(values) |->
                                        RoundToFloat(values[x].val)])
                         /\ \A n \in {"bool_values", "int32_values",
                                      "int64_values"} :
                               /\ HasAttr(now.attrs, n)
                               /\ now.attrs[n].v = <<>>
                         /\ \A n \in {"fp64_values", "fp16_values"} :
                               HasAttr(now.attrs, n) => HasAttr(op.attrs, n)
                   /\ values[1].dtype \notin
                         {"BOOL", "FLOAT32", "FLOAT64", "INT32", "INT64"} =>
                         /\ RaisedAt(q)
                         /\ err = "InvalidDataType"

C13_Witness ==
    /\ dir = "no_scalar"
    /\ status = "done"
    /\ \E q \in Positions(before) :
          /\ before[q[1]][q[2]].type = "assign_value"
          /\ HasValues(before[q[1]][q[2]])
          /\ before[q[1]][q[2]].attrs["values"].v =
                <<[dtype |-> "FLOAT64", val |-> 16777217],
                  [dtype |-> "FLOAT64", val |-> 9]>>
          /\ program[q[1]][q[2]].attrs["fp32_values"].v = <<16777216, 9>>
          /\ ~HasAttr(program[q[1]][q[2]].attrs, "fp64_values")

\* C14: no_scalar::ConvertSetValueOp / ConvertAssignValueOp on an operator
\* whose `values` is absent or is not a sequence of scalars, and
\* no_scalar::ConvertFillConstantOp on an operator whose `value` is absent
\* or is not a scalar, raise before removing or writing any attribute.
C14_RequiredAttribute ==
    \A q \in Positions(before) :
        LET op == before[q[1]][q[2]]
        IN  (/\ dir = "no_scalar"
             /\ \/ op.type \in ListOpTypes /\ ~HasValues(op)
                \/ op.type = "fill_constant"
                     /\ ~CanGet(op.attrs, "value", "SCALAR")
             /\ (RaisedAt(q) \/ Passed(q)))
            => /\ RaisedAt(q)
               /\ err # ""
               /\ program[q[1]][q[2]].attrs = op.attrs

C14_Witness ==
    /\ dir = "no_scalar"
    /\ status = "error"
    /\ hist = <<"no_scalar">>
    /\ \E q \in Positions(before) :
          /\ RaisedAt(q)
          /\ before[q[1]][q[2]].type = "assign_value"
          /\ AllListsPresent(before[q[1]][q[2]])
          /\ ~HasAttr(before[q[1]][q[2]].attrs, "values")
          /\ program[q[1]][q[2]] = before[q[1]][q[2]]

\* C15: for a set_value operator whose `values` is a sequence of scalars of
\* one data type among Bool, Int32, Int64, Float32, Float64, Float16,
\* no_scalar::ConvertProgram followed by scalar::ConvertProgram yields
\* `values` of the same length, data type and payloads.
C15_ReverseRoundTrip ==
    (status = "done" /\ hist = <<"no_scalar", "scalar">>) =>
        \A q \in Positions(orig) :
            LET op == orig[q[1]][q[2]]
            IN  (/\ op.type = "set_value"
                 /\ HasValues(op)
                 /\ \E d \in SupportedDTypes :
                       \A x \in 1..Len(op.attrs["values"].v) :
                          op.attrs["values"].v[x].dtype = d)
                => /\ HasValues(program[q[1]][q[2]])
                   /\ program[q[1]][q[2]].attrs["values"].v =
                         op.attrs["values"].v

====
